---- MODULE Spec2Model ----
(***************************************************************************)
(* c3-exporter: the request-forwarding pipeline of internal/server.        *)
(*                                                                         *)
(* One inbound HTTP exchange is followed from the ServeMux dispatch        *)
(* (server.go, New) through the authentication gate (verifyBasicAuth),     *)
(* the per-endpoint method gates, body compression, the retrying forwarder *)
(* (retryablehttp.Client.Do as configured by the handlers) and the relay   *)
(* of the backend response, together with the two sources of context       *)
(* cancellation: http.TimeoutHandler (wrapped around the bulk handler      *)
(* only) and the caller going away.                                        *)
(*                                                                         *)
(* Beside the pipeline stand the server around it (server.go Start and     *)
(* Stop, main.go handleSignals: the metrics flush goroutine, the signals   *)
(* and the shutdown) and main's start-up (the flags, config.Load and the   *)
(* configuration handed to server.New), each with a specification of its   *)
(* own over the same variables.                                            *)
(*                                                                         *)
(* Paths are sequences of segments: "/" is <<"">>, "/_bulk" is <<"_bulk">>,*)
(* "/_template/foo" is <<"_template", "foo">>; a trailing slash is an      *)
(* empty last segment.  Inbound paths are clean (no "//", "." or ".."),    *)
(* the form ServeMux hands to a handler.                                   *)
(***************************************************************************)
EXTENDS Integers, Sequences, FiniteSets, TLC

\* ------------------------------------------------------------------ bounds

\* longest inbound body, in bytes
MaxBodyLen == 1

\* the flushes followed in one run of the flush loop
MaxFlushes == 3

\* the signals delivered to the process in one run
MaxSignals == 3

\* ------------------------------------------------------- program constants

RetryMax == 7

\* retryClient.RetryWaitMin and RetryWaitMax, in milliseconds
RetryWaitMin == 50
RetryWaitMax == 2000

StatusOK == 200
StatusUnauthorized == 401
StatusNotFound == 404
StatusMethodNotAllowed == 405
StatusNotAcceptable == 406
StatusTooManyRequests == 429
StatusInternalServerError == 500
StatusNotImplemented == 501
StatusServiceUnavailable == 503

\* -------------------------------------------------------------- input sets

Methods == {"GET", "HEAD", "POST", "PUT", "DELETE"}

Bytes == {0, 1}

Bodies == UNION {[1..n -> Bytes] : n \in 0..MaxBodyLen}

\* the raw query of the inbound URL
Queries == {"", "refresh=true"}

\* the pair r.BasicAuth() yields; NoCred when the header is absent or malformed
NoCred == [user |-> <<>>, pass |-> <<>>, ok |-> FALSE]

\* Authorization: Basic values as sent, base64 taken off, character by character:
\* "a:p", ":" (both parts empty), "b::" (the password is a colon), "x" (malformed)
AuthHeaders == { <<"a", ":", "p">>, <<":">>, <<"b", ":", ":">>, <<"x">> }

\* net/http parseBasicAuth: the value is cut at its first colon
ParseBasicAuth(cs) ==
    IF \A k \in 1..Len(cs) : cs[k] # ":" THEN NoCred
    ELSE LET at == CHOOSE k \in 1..Len(cs) :
                       cs[k] = ":" /\ \A j \in 1..(k - 1) : cs[j] # ":"
         IN  [user |-> SubSeq(cs, 1, at - 1), pass |-> SubSeq(cs, at + 1, Len(cs)),
              ok |-> TRUE]

\* SetBasicAuth that leaves the password out
SetBasicAuthNoPassword(username, password) == username \o <<":">>

\* req.SetBasicAuth(username, password): the value the backend receives
SetBasicAuth(username, password) == username \o <<":">> \o password

Creds == {ParseBasicAuth(cs) : cs \in AuthHeaders} \ {NoCred}

InboundPaths ==
    { <<"">>,
      <<"health">>,
      <<"_bulk">>,
      <<"myindex", "_bulk">>,
      <<"otel-v1-apm-span", "_bulk">>,
      <<"_cluster", "settings">>,
      <<"_template", "foo">>,
      <<"_component_template", "foo">>,
      <<"_index_template", "foo">>,
      <<"otel-v1-apm-service-map">>,
      <<"_opendistro", "_ism", "policies", "raw-span-policy">>,
      <<"otel-v1-apm-span-000001">>,
      <<"otel-v1-apm-span", "_search">>,
      <<"nosuch">> }

\* what the backend can answer to one attempt
BackendStatus == {200, 201, 404, 406, 429, 500, 501}

BackendBodies == {"b1", "b2"}

\* the Retry-After header of an answer, in seconds; NoRetryAfter when there is none
NoRetryAfter == -1

RetryAfterOf(status) ==
    IF status = StatusTooManyRequests THEN {NoRetryAfter, 0, 3} ELSE {NoRetryAfter}

Responses ==
    UNION { [kind : {"resp"}, status : {s}, body : BackendBodies,
             retryAfter : RetryAfterOf(s)] : s \in BackendStatus }

\* transport-level failures: "net" (dial, reset, client timeout), "fatal" (too many
\* redirects, unsupported scheme, untrusted certificate), "ctx" (request context done)
TransportErrors == [kind : {"err"}, err : {"net", "fatal", "ctx"}]

NoResp == [kind |-> "none"]

\* ------------------------------------------------------------- the routes

\* mux.Handle(pattern, handler): a registration, bare
Handle(pattern, handler) ==
    [pattern |-> pattern, handler |-> handler, auth |-> FALSE, timeout |-> FALSE]

\* a wrapper that lets every request through to the handler
verifyBasicAuthSkipped(rt) == rt

\* s.verifyBasicAuth(next): the handler runs behind the credential check
verifyBasicAuth(rt) == [rt EXCEPT !.auth = TRUE]

\* http.TimeoutHandler(h, handlerTimeout, "Handler timeout")
TimeoutHandler(rt) == [rt EXCEPT !.timeout = TRUE]

\* the table with the bulk patterns left to bulkHandler's own credential check, which
\* comes after its method gate
RoutesBulkUnwrapped ==
    { verifyBasicAuth(Handle(<<"">>, "genericHandler")),
      Handle(<<"health">>, "healthHandler"),
      TimeoutHandler(Handle(<<"_bulk">>, "bulkHandler")),
      verifyBasicAuth(Handle(<<"_cluster", "settings">>, "clusterSettingsHandler")),
      verifyBasicAuth(Handle(<<"otel-v1-apm-service-map">>, "otelv1apmservicemapHandler")),
      verifyBasicAuth(Handle(<<"_template", "">>, "templateHandler")),
      verifyBasicAuth(Handle(<<"_component_template", "">>, "templateHandler")),
      verifyBasicAuth(Handle(<<"_opendistro", "_ism", "policies", "raw-span-policy">>,
                             "ismPolicyHandler")),
      verifyBasicAuth(Handle(<<"otel-v1-apm-span-000001">>, "otelSpanHandler")),
      verifyBasicAuth(Handle(<<"otel-v1-apm-span", "_search">>, "otelSpanSearchHandler")),
      TimeoutHandler(Handle(<<"otel-v1-apm-span", "_bulk">>, "bulkHandler")) }

\* the table with "/health" behind verifyBasicAuth like the other patterns
RoutesHealthAuthed ==
    { verifyBasicAuth(Handle(<<"">>, "genericHandler")),
      verifyBasicAuth(Handle(<<"health">>, "healthHandler")),
      verifyBasicAuth(TimeoutHandler(Handle(<<"_bulk">>, "bulkHandler"))),
      verifyBasicAuth(Handle(<<"_cluster", "settings">>, "clusterSettingsHandler")),
      verifyBasicAuth(Handle(<<"otel-v1-apm-service-map">>, "otelv1apmservicemapHandler")),
      verifyBasicAuth(Handle(<<"_template", "">>, "templateHandler")),
      verifyBasicAuth(Handle(<<"_component_template", "">>, "templateHandler")),
      verifyBasicAuth(Handle(<<"_opendistro", "_ism", "policies", "raw-span-policy">>,
                             "ismPolicyHandler")),
      verifyBasicAuth(Handle(<<"otel-v1-apm-span-000001">>, "otelSpanHandler")),
      verifyBasicAuth(Handle(<<"otel-v1-apm-span", "_search">>, "otelSpanSearchHandler")),
      verifyBasicAuth(TimeoutHandler(Handle(<<"otel-v1-apm-span", "_bulk">>, "bulkHandler"))) }

\* the mux built by New
Routes ==
    { verifyBasicAuth(Handle(<<"">>, "genericHandler")),
      Handle(<<"health">>, "healthHandler"),
      verifyBasicAuth(TimeoutHandler(Handle(<<"_bulk">>, "bulkHandler"))),
      verifyBasicAuth(Handle(<<"_cluster", "settings">>, "clusterSettingsHandler")),
      verifyBasicAuth(Handle(<<"otel-v1-apm-service-map">>, "otelv1apmservicemapHandler")),
      verifyBasicAuth(Handle(<<"_template", "">>, "templateHandler")),
      verifyBasicAuth(Handle(<<"_component_template", "">>, "templateHandler")),
      verifyBasicAuth(Handle(<<"_opendistro", "_ism", "policies", "raw-span-policy">>,
                             "ismPolicyHandler")),
      verifyBasicAuth(Handle(<<"otel-v1-apm-span-000001">>, "otelSpanHandler")),
      verifyBasicAuth(Handle(<<"otel-v1-apm-span", "_search">>, "otelSpanSearchHandler")),
      verifyBasicAuth(TimeoutHandler(Handle(<<"otel-v1-apm-span", "_bulk">>, "bulkHandler"))) }

\* a pattern ending in "/" names a subtree, any other pattern one path
IsSubtree(pattern) == pattern[Len(pattern)] = ""

PatternMatches(pattern, path) ==
    IF IsSubtree(pattern)
    THEN /\ Len(path) >= Len(pattern)
         /\ \A k \in 1..(Len(pattern) - 1) : path[k] = pattern[k]
    ELSE path = pattern

\* ServeMux: a pattern equal to the path wins, then the longest matching subtree
MuxHandler(path) ==
    IF \E rt \in Routes : rt.pattern = path
    THEN CHOOSE rt \in Routes : rt.pattern = path
    ELSE CHOOSE rt \in Routes :
             /\ IsSubtree(rt.pattern) /\ PatternMatches(rt.pattern, path)
             /\ \A other \in Routes :
                    (IsSubtree(other.pattern) /\ PatternMatches(other.pattern, path))
                        => Len(other.pattern) <= Len(rt.pattern)

\* ---------------------------------------------------- the method gates
\* what each handler's ServeHTTP does with the method before anything else:
\* "forward" (go on to compress and forward), "notallowed" (405), "notfound" (404)

\* genericHandler passing on GET only
genericHandlerGetOnly(method) ==
    IF method = "GET" THEN "forward" ELSE "notfound"

genericHandler(method) ==
    IF method \in {"HEAD", "GET"} THEN "forward" ELSE "notfound"

bulkHandler(method) ==
    IF method # "POST" THEN "notallowed" ELSE "forward"

clusterSettingsHandler(method) ==
    IF method # "GET" THEN "notallowed" ELSE "forward"

\* templateHandler without its method switch
templateHandlerNoGate(method) == "forward"

templateHandler(method) ==
    IF method \in {"PUT", "HEAD", "GET"} THEN "forward" ELSE "notallowed"

otelv1apmservicemapHandler(method) ==
    IF method \in {"PUT", "HEAD", "GET"} THEN "forward" ELSE "notallowed"

ismPolicyHandler(method) ==
    IF method \in {"PUT", "HEAD", "GET"} THEN "forward" ELSE "notallowed"

otelSpanHandler(method) ==
    IF method \in {"PUT", "HEAD", "GET"} THEN "forward" ELSE "notallowed"

otelSpanSearchHandler(method) ==
    IF method = "POST" THEN "forward" ELSE "notallowed"

MethodGate(handler, method) ==
    CASE handler = "genericHandler" -> genericHandler(method)
      [] handler = "bulkHandler" -> bulkHandler(method)
      [] handler = "clusterSettingsHandler" -> clusterSettingsHandler(method)
      [] handler = "templateHandler" -> templateHandler(method)
      [] handler = "otelv1apmservicemapHandler" -> otelv1apmservicemapHandler(method)
      [] handler = "ismPolicyHandler" -> ismPolicyHandler(method)
      [] handler = "otelSpanHandler" -> otelSpanHandler(method)
      [] handler = "otelSpanSearchHandler" -> otelSpanSearchHandler(method)

\* a handler that compresses and sends a body whatever the method
HasBodyAlways(handler, method) == TRUE

\* the methods for which a handler compresses and sends a body
HasBody(handler, method) ==
    IF handler = "bulkHandler" THEN TRUE ELSE method \in {"PUT", "POST"}

\* ------------------------------------------------------ the reply writer

\* a ResponseWriter: code 0 = status line not written yet
NoReply == [code |-> 0, ctype |-> "", challenge |-> FALSE, body |-> <<>>]

TextPlain == "text/plain; charset=utf-8"
JsonUtf8 == "application/json; charset=utf-8"

SetContentType(rw, ct) == [rw EXCEPT !.ctype = ct]

\* w.WriteHeader: only the first call sets the status
WriteHeader(rw, code) == IF rw.code = 0 THEN [rw EXCEPT !.code = code] ELSE rw

\* w.Write: an implicit WriteHeader(200) when none was made
Write(rw, chunk) ==
    LET h == IF rw.code = 0
             THEN [rw EXCEPT !.code = StatusOK,
                             !.ctype = IF rw.ctype = "" THEN TextPlain ELSE rw.ctype]
             ELSE rw
    IN  [h EXCEPT !.body = Append(@, chunk)]

\* http.Error: sets the text content type, writes the status, prints the message
HttpError(rw, msg, code) ==
    Write(WriteHeader(SetContentType(rw, TextPlain), code), msg)

\* Server.serverError
serverError(rw) == HttpError(rw, "Internal Server Error", StatusInternalServerError)

\* verifyBasicAuth's refusal
Unauthorized(rw) ==
    HttpError([rw EXCEPT !.challenge = TRUE], "Unauthorized", StatusUnauthorized)

\* ------------------------------------------------------------- the state

VARIABLES
    pc,        \* where the exchange is: "idle", "compress", "attempt", "inflight",
               \* "backoff", "relay", "copy", "done"
    r,         \* the inbound request
    route,     \* the route the mux picked for it
    ctx,       \* r.Context(): "live", "timeout" (TimeoutHandler fired), "cancelled"
    deadline,  \* the handler timeout since the request came in: "pending", "passed"
    w,         \* the ResponseWriter the handler writes to
    caller,    \* what has reached the caller
    panicked,  \* the handler goroutine panicked
    outreq,    \* the outbound request built for the backend
    i,         \* retryablehttp.Client.Do: the loop index of the current attempt
    retries,   \* the handler's retries counter
    sends,     \* requests that reached the backend
    resp,      \* Do's response, NoResp when nil
    err,       \* Do's error is non-nil
    metrics,   \* the recordings made on the metrics client
    backend,   \* the backend's own account: its last answer, how many attempts it failed
    logged,    \* the log events of the last step
    wait,      \* Client.Do: the wait Backoff chose last, in milliseconds, while in the loop
    wire,      \* what the last attempt put on the wire: payload and declared length
    inflight   \* attempts sent and not yet ended

\* the server around the handlers: Start's flush goroutine
VARIABLES
    rootctx,     \* the context Start was given: "live", "done" (cancelled)
    flusher,     \* the flush goroutine: "select" (in its select), "returned", "crashed"
    tick,        \* ticker.C holds a tick
    flushResult, \* what the last s.metrics.Flush returned
    flushes,     \* calls of s.metrics.Flush
    warned,      \* "flushing circonus metrics" warnings logged
    sigch,       \* main's signalCh: the signals delivered and not yet taken
    delivered,   \* signals delivered so far
    sighandler,  \* handleSignals: "select", "stopping" (inside s.Stop), "returned"
    start,       \* Server.Start: "serving" (in ListenAndServe), "blocked" (on
                 \* <-s.idleConnsClosed), "returned"
    shutdown,    \* srv.Shutdown: "no", "begun" (listener closed, waiting for the
                 \* connections), "graceful", "timeout" (the 30 s passed)
    closes,      \* close(s.idleConnsClosed) executed so many times
    process      \* "running", "exited" (main returned)

\* a second request served at the same time by a goroutine of its own
VARIABLES
    parked,      \* the local variables of the handler that is not running at the moment
    active       \* which of the two requests (1, 2) the running handler serves

\* main before the server exists: the flags, config.Load and what main does to the result
VARIABLES
    cfgpc,       \* main: "flags", "load", "debug", "new" (server.New is next), "exited"
                 \* (-version, or log.Fatal)
    launch,      \* what the process was started with: flags, config file, environment
    cfg          \* the configuration main holds

reqvars == <<pc, r, route, ctx, deadline, w, caller, panicked, outreq, i, retries, sends, resp, err,
             metrics, backend, logged, wait, wire, inflight>>

flushvars == <<rootctx, flusher, tick, flushResult, flushes, warned>>

lifevars == <<sigch, delivered, sighandler, start, shutdown, closes, process>>

cfgvars == <<cfgpc, launch, cfg>>

concvars == <<parked, active>>

\* everything outside the request whose handler is running
servervars == <<flushvars, lifevars, cfgvars, concvars>>

vars == <<reqvars, servervars>>

NoFlush == [r |-> "none", err |-> FALSE]

\* a nil *tls.Config
NilTLS == [nil |-> TRUE, MinVersion |-> 0, RootCAs |-> "", InsecureSkipVerify |-> FALSE]

\* the zero Config
NoCfg == [Debug |-> FALSE,
          Server |-> [Address |-> "", ReadTimeout |-> "", WriteTimeout |-> "",
                      IdleTimeout |-> "", ReadHeaderTimeout |-> "", HandlerTimeout |-> ""],
          Destination |-> [Host |-> "", CAFile |-> "", EnableTLS |-> FALSE,
                           SkipVerify |-> FALSE, TLSConfig |-> NilTLS],
          Circonus |-> [APIKey |-> "", APIURL |-> "", FlushDuration |-> "",
                        FlushInterval |-> 0]]

\* an environment variable that is not set, and the settings of a process not started
Unset == [set |-> FALSE, val |-> ""]

NoSettings == [DEBUG |-> Unset, ENABLE_TLS |-> Unset, SKIP_VERIFY |-> Unset,
               HOST |-> Unset, API_KEY |-> Unset, CA_FILE |-> Unset,
               FLUSH_INTERVAL |-> Unset]

NoLaunch == [debug |-> FALSE, version |-> FALSE, file |-> "", settings |-> NoSettings]

NoReq == [method |-> "", path |-> <<>>, query |-> "", cred |-> NoCred, body |-> <<>>,
          contentLength |-> 0]

NoRoute == [pattern |-> <<>>, handler |-> "", auth |-> FALSE, timeout |-> FALSE]

NoOutReq == [method |-> "", url |-> [host |-> "", path |-> <<>>, query |-> ""],
             authorization |-> <<>>, hasBody |-> FALSE, body |-> <<>>, contentLength |-> 0,
             headers |-> {}]

NoWire == [body |-> <<>>, contentLength |-> 0]

\* the local variables of a handler that has not been called yet
NoLocals ==
    [pc |-> "idle", r |-> NoReq, route |-> NoRoute, ctx |-> "live", deadline |-> "pending",
     w |-> NoReply, caller |-> NoReply, panicked |-> FALSE, outreq |-> NoOutReq,
     i |-> 0, retries |-> 0, sends |-> 0, resp |-> NoResp, err |-> FALSE,
     backend |-> [failures |-> 0, last |-> NoResp],
     wait |-> 0, wire |-> NoWire, inflight |-> 0]

Init ==
    /\ pc = "idle"
    /\ r = NoReq
    /\ route = NoRoute
    /\ ctx = "live"
    /\ deadline = "pending"
    /\ w = NoReply
    /\ caller = NoReply
    /\ panicked = FALSE
    /\ outreq = NoOutReq
    /\ i = 0
    /\ retries = 0
    /\ sends = 0
    /\ resp = NoResp
    /\ err = FALSE
    /\ metrics = <<>>
    /\ backend = [failures |-> 0, last |-> NoResp]
    /\ logged = {}
    /\ wait = 0
    /\ wire = NoWire
    /\ inflight = 0
    /\ rootctx = "live"
    /\ flusher = "select"
    /\ tick = FALSE
    /\ flushResult = NoFlush
    /\ flushes = 0
    /\ warned = 0
    /\ sigch = <<>>
    /\ delivered = 0
    /\ sighandler = "select"
    /\ start = "serving"
    /\ shutdown = "no"
    /\ closes = 0
    /\ process = "running"
    /\ cfgpc = "flags"
    /\ launch = NoLaunch
    /\ cfg = NoCfg
    /\ parked = NoLocals
    /\ active = 1

\* what reaches the caller of what the handler has written.  A handler behind
\* http.TimeoutHandler writes to a buffer that is copied out when the handler returns
\* before the timeout; any other handler writes to the connection.  Headers go out
\* with the status line; a caller that went away receives nothing more.
Deliver(rt, cx, old, rw, returned) ==
    IF cx = "cancelled" THEN old
    ELSE IF rt.timeout
    THEN IF returned /\ cx = "live"
         THEN [rw EXCEPT !.code = IF rw.code = 0 THEN StatusOK ELSE rw.code]
         ELSE old
    ELSE IF rw.code = 0 THEN old
    ELSE IF old.code = 0 THEN rw
    ELSE [old EXCEPT !.body = rw.body]

\* ------------------------------------------------------------- the actions

\* An inbound request reaches the mux: dispatch, verifyBasicAuth and the handler's
\* method gate, up to the handler's first read of the body.
ServeHTTP(method, path, query, cred, body, chunked) ==
    /\ pc = "idle"
    /\ LET rt == MuxHandler(path)
           req == [method |-> method, path |-> path, query |-> query, cred |-> cred,
                   body |-> body,
                   contentLength |-> IF chunked THEN -1 ELSE Len(body)]
           gate == MethodGate(rt.handler, method)
           reply == IF rt.auth /\ ~cred.ok THEN Unauthorized(NoReply)
                    ELSE IF rt.handler = "healthHandler" THEN Write(NoReply, "OK")
                    ELSE IF gate = "notallowed"
                    THEN HttpError(NoReply, "method not supported", StatusMethodNotAllowed)
                    ELSE IF gate = "notfound"
                    THEN HttpError(NoReply, "not found", StatusNotFound)
                    ELSE IF rt.handler = "bulkHandler" /\ ~cred.ok
                    THEN Unauthorized(NoReply)
                    ELSE NoReply
       IN  /\ r' = req
           /\ route' = rt
           /\ w' = reply
           /\ pc' = IF reply = NoReply THEN "compress" ELSE "done"
           /\ caller' = Deliver(rt, ctx, caller, reply, reply # NoReply)
           /\ logged' = IF reply.code = StatusNotFound
                        THEN {[level |-> "warn", msg |-> "request received",
                               method |-> method, uri |-> <<path, query>>]}
                        ELSE {}
    /\ UNCHANGED <<wait, wire, inflight>>
    /\ UNCHANGED servervars
    /\ UNCHANGED <<ctx, deadline, panicked, outreq, i, retries, sends, resp, err, metrics, backend>>

\* a gzip stream taken while the body is still being copied in: the header alone
GzipUnflushed(body) == <<31, 139>>

\* a gzip stream whose writer was not closed: no trailer
GzipUnclosed(body) == <<31, 139>> \o body

\* gzip.NewWriter(&buf); io.Copy(gz, r.Body); gz.Close(): the member header, the
\* payload (as stored blocks), the trailer with the input size
Gzip(body) == <<31, 139>> \o body \o <<Len(body)>>

\* retryablehttp.NewRequestWithContext given a *bytes.Buffer: contentLength = buf.Len()
BufLen(buf) == Len(buf)

\* a body reader that goes on where the attempt before stopped: nothing left to send
BodyReaderConsumed(buf, attempt) == IF attempt = 0 THEN buf ELSE <<>>

\* the request's body function, called by Client.Do at the top of every attempt:
\* bytes.NewReader(buf.Bytes()), a new reader over the whole buffer
BodyReader(buf, attempt) == buf

\* the headers set on the outbound request
OutHeaders(handler, method) ==
    {<<"X-Circonus-Auth-Token", "dataToken">>, <<"Connection", "close">>,
     <<"User-Agent", "c3-exporter">>, <<"X-Forwarded-For", "remote">>}
    \cup (IF HasBody(handler, method)
          THEN {<<"Content-Type", "inbound">>, <<"Content-Encoding", "gzip">>}
          ELSE {})

\* net.JoinHostPort(dest.Host, dest.Port) behind the scheme dest.EnableTLS selects
DestHostPort == "dest.Host:dest.Port"

\* the URL of the outbound request.  bulkHandler fills a url.URL with scheme, host and
\* r.URL.Path only; genericRequest appends r.URL.String(), path and query.
DestURL(handler, req) ==
    IF handler = "bulkHandler"
    THEN [host |-> DestHostPort, path |-> req.path, query |-> ""]
    ELSE [host |-> DestHostPort, path |-> req.path, query |-> req.query]

\* a local failure answered 400, as if the request were at fault
LocalFailureBadRequest(handler, rw, msg) == HttpError(rw, msg, 400)

\* what a handler answers on a local failure before dispatch
LocalFailure(handler, rw, msg) ==
    IF handler = "bulkHandler"
    THEN HttpError(rw, msg, StatusInternalServerError)
    ELSE serverError(rw)

\* The handler compresses the inbound body, builds the outbound request and sets up
\* the retrying client; fail names the step that failed, if any.
Compress(fail) ==
    /\ pc = "compress"
    /\ fail \in {"read", "close"} => HasBody(route.handler, r.method)
    /\ IF fail # "none"
       THEN /\ w' = LocalFailure(route.handler, w,
                        CASE fail = "read" -> "compressing body"
                          [] fail = "close" -> "closing compressed buffer"
                          [] fail = "build" -> "creating destination request")
            /\ caller' = Deliver(route, ctx, caller, w', TRUE)
            /\ pc' = "done"
            /\ logged' = {[level |-> "error", msg |-> fail]}
            /\ UNCHANGED <<outreq, i, retries>>
       ELSE /\ outreq' = [method |-> r.method, url |-> DestURL(route.handler, r),
                          authorization |-> SetBasicAuth(r.cred.user, r.cred.pass),
                          hasBody |-> HasBody(route.handler, r.method),
                          body |-> IF HasBody(route.handler, r.method)
                                   THEN Gzip(r.body) ELSE <<>>,
                          contentLength |-> IF HasBody(route.handler, r.method)
                                            THEN BufLen(Gzip(r.body)) ELSE 0,
                          headers |-> OutHeaders(route.handler, r.method)]
            /\ i' = 0
            /\ retries' = 0
            /\ pc' = "attempt"
            /\ logged' = {}
            /\ UNCHANGED <<w, caller>>
    /\ UNCHANGED <<wait, wire, inflight>>
    /\ UNCHANGED servervars
    /\ UNCHANGED <<r, route, ctx, deadline, panicked, sends, resp, err, metrics, backend>>

\* a hook that counts the first attempt as a retry too
RequestLogHookEveryAttempt(attempt) ==
    [retries |-> retries + 1,
     logged |-> {[level |-> "info", msg |-> "retrying", attempt |-> attempt]}]

\* RequestLogHook: what the handler does before attempt number attempt
RequestLogHook(attempt) ==
    IF attempt > 0
    THEN [retries |-> retries + 1,
          logged |-> {[level |-> "info", msg |-> "retrying", attempt |-> attempt]}]
    ELSE [retries |-> retries, logged |-> {}]

\* a transport that sends whatever the state of the request context
RoundTripIgnoringContext(cx) == TRUE

\* HTTPClient.Do(req.Request): the transport puts the request on the wire unless the
\* request context is done, in which case it returns the context's error at once
RoundTrip(cx) == cx = "live"

\* Client.Do, the top of the loop: the hook runs, then HTTPClient.Do sends the request
\* unless the request context is already done.
AttemptStart ==
    /\ pc = "attempt"
    /\ retries' = RequestLogHook(i).retries
    /\ logged' = RequestLogHook(i).logged
    /\ sends' = IF RoundTrip(ctx) THEN sends + 1 ELSE sends
    /\ inflight' = IF RoundTrip(ctx) THEN inflight + 1 ELSE inflight
    /\ wire' = IF RoundTrip(ctx)
               THEN [body |-> BodyReader(outreq.body, i),
                     contentLength |-> outreq.contentLength]
               ELSE wire
    /\ pc' = "inflight"
    /\ UNCHANGED <<wait>>
    /\ UNCHANGED servervars
    /\ UNCHANGED <<r, route, ctx, deadline, w, caller, panicked, outreq, i, resp, err, metrics, backend>>

\* a policy that retries every response other than 200
RetryOnNon200(ctxDone, o) ==
    IF ctxDone THEN [retry |-> FALSE, err |-> TRUE]
    ELSE IF o.kind = "err"
    THEN [retry |-> o.err # "fatal", err |-> o.err = "fatal"]
    ELSE [retry |-> o.status # StatusOK, err |-> FALSE]

\* a policy that retries every status from 400 up
RetryOnClientErrors(ctxDone, o) ==
    IF ctxDone THEN [retry |-> FALSE, err |-> TRUE]
    ELSE IF o.kind = "err"
    THEN [retry |-> o.err # "fatal", err |-> o.err = "fatal"]
    ELSE [retry |-> o.status >= 400, err |-> FALSE]

\* retryablehttp.ErrorPropagatedRetryPolicy (with baseRetryPolicy): retry is whether
\* to try again, err the error it hands back
ErrorPropagatedRetryPolicy(ctxDone, o) ==
    IF ctxDone THEN [retry |-> FALSE, err |-> TRUE]
    ELSE IF o.kind = "err"
    THEN IF o.err = "fatal" THEN [retry |-> FALSE, err |-> TRUE]
         ELSE [retry |-> TRUE, err |-> FALSE]
    ELSE IF o.status = StatusTooManyRequests THEN [retry |-> TRUE, err |-> FALSE]
    ELSE IF o.status = 0
            \/ (o.status >= StatusInternalServerError /\ o.status # StatusNotImplemented)
    THEN [retry |-> TRUE, err |-> TRUE]
    ELSE [retry |-> FALSE, err |-> FALSE]

\* retryClient.CheckRetry as the handlers set it: the policy's verdict, its error dropped
CheckRetry(ctxDone, o) ==
    [retry |-> ErrorPropagatedRetryPolicy(ctxDone, o).retry, err |-> FALSE]

\* the warning CheckRetry logs
CheckRetryLog(ctxDone, o) ==
    LET p == ErrorPropagatedRetryPolicy(ctxDone, o)
    IN  IF p.retry /\ p.err THEN {[level |-> "warn", msg |-> "request error"]} ELSE {}

\* retryClient.ResponseLogHook
ResponseLogHook(o) ==
    IF o.status # StatusOK
    THEN {[level |-> "warn", msg |-> "non-200 response", status_code |-> o.status]}
    ELSE IF retries > 0
    THEN {[level |-> "info", msg |-> "succeeded", retries |-> retries + 1]}
    ELSE {}

\* the loop test off by one: one more attempt than Do makes
BudgetLeftOffByOne(attempt) == RetryMax - attempt >= 0

\* Client.Do gives up retrying once RetryMax - i <= 0
BudgetLeft(attempt) == RetryMax - attempt > 0

RECURSIVE Pow2(_)
Pow2(n) == IF n = 0 THEN 1 ELSE 2 * Pow2(n - 1)

\* retryablehttp.DefaultBackoff (the client's Backoff, the handlers set none): a 429 or
\* 503 answer with a Retry-After header decides the wait by itself; otherwise
\* min * 2^attemptNum, replaced by max when larger.  Milliseconds.
DefaultBackoff(min, max, attemptNum, o) ==
    IF /\ o.kind = "resp"
       /\ o.status \in {StatusTooManyRequests, StatusServiceUnavailable}
       /\ o.retryAfter # NoRetryAfter
    THEN 1000 * o.retryAfter
    ELSE IF Pow2(attemptNum) * min > max THEN max ELSE Pow2(attemptNum) * min

\* Client.Do after the loop: the response goes to the handler only when the attempt
\* made no error and CheckRetry asked for no retry
DoResult(o, shouldRetry) ==
    IF o.kind = "resp" /\ ~shouldRetry
    THEN [resp |-> o, err |-> FALSE]
    ELSE [resp |-> NoResp, err |-> TRUE]

\* the backend's account of an attempt that ended with o: a transport failure or one of
\* the statuses it answers when it is failing counts as a failed attempt
FailingStatus == {429, 500}

BackendFailed(o) ==
    \/ o.kind = "err" /\ o.err # "ctx"
    \/ o.kind = "resp" /\ o.status \in FailingStatus

BackendAnswers(o) ==
    [failures |-> IF BackendFailed(o) THEN backend.failures + 1 ELSE backend.failures,
     last |-> o]

\* The attempt in flight ends with outcome o; CheckRetry and the response hook run,
\* and Do either leaves the loop or goes to wait.
AttemptEnd(o) ==
    /\ pc = "inflight"
    /\ IF ctx = "live"
       THEN o \in Responses \cup {t \in TransportErrors : t.err # "ctx"}
       ELSE o = [kind |-> "err", err |-> "ctx"]
    /\ LET shouldRetry == CheckRetry(ctx # "live", o).retry
       IN  /\ logged' = CheckRetryLog(ctx # "live", o)
                          \cup (IF o.kind = "resp" THEN ResponseLogHook(o) ELSE {})
           /\ IF shouldRetry /\ BudgetLeft(i)
              THEN /\ pc' = "backoff"
                   /\ wait' = DefaultBackoff(RetryWaitMin, RetryWaitMax, i, o)
                   /\ UNCHANGED <<resp, err>>
              ELSE /\ pc' = "relay"
                   /\ resp' = DoResult(o, shouldRetry).resp
                   /\ err' = DoResult(o, shouldRetry).err
                   /\ wait' = 0
    /\ backend' = BackendAnswers(o)
    /\ inflight' = 0
    /\ UNCHANGED <<wire>>
    /\ UNCHANGED servervars
    /\ UNCHANGED <<r, route, ctx, deadline, w, caller, panicked, outreq, i, retries, sends, metrics>>

\* Client.Do between attempts: the wait elapses
BackoffElapsed ==
    /\ pc = "backoff"
    /\ i' = i + 1
    /\ pc' = "attempt"
    /\ logged' = {}
    /\ UNCHANGED <<wait, wire, inflight>>
    /\ UNCHANGED servervars
    /\ UNCHANGED <<r, route, ctx, deadline, w, caller, panicked, outreq, retries, sends, resp, err,
                   metrics, backend>>

\* Client.Do between attempts: the request context is done, Do returns its error
BackoffCancelled ==
    /\ pc = "backoff"
    /\ ctx # "live"
    /\ resp' = NoResp
    /\ err' = TRUE
    /\ pc' = "relay"
    /\ logged' = {}
    /\ wait' = 0
    /\ UNCHANGED <<wire, inflight>>
    /\ UNCHANGED servervars
    /\ UNCHANGED <<r, route, ctx, deadline, w, caller, panicked, outreq, i, retries, sends, metrics, backend>>

\* contentSize: the bytes io.Copy read from the inbound body into the gzip writer; a
\* handler that does not compress reads nothing
ContentSize(handler, req) == IF HasBody(handler, req.method) THEN Len(req.body) ELSE 0

\* the value CounterIncrementByValue receives: uint64(n), a negative n wrapping to 2^64 + n
Uint64(n) == IF n < 0 THEN [wrapped |-> TRUE, off |-> n] ELSE [wrapped |-> FALSE, off |-> n]

\* the fields the request's logger carries on every event once the outbound request is
\* built: req.URL.String() and req.Method (the req_id aside)
ReqLogger(handler, req) == [url |-> DestURL(handler, req), method |-> req.method]

\* the recordings with the account tag taken from the password
MetricRecordingsByPassword(req) ==
    LET tags == {<<"units", "bytes">>, <<"path", req.path>>}
        acct == tags \cup {<<"ingest_acct", req.cred.pass>>}
    IN  << [kind |-> "counter", name |-> "log_size", tags |-> tags,
            value |-> Uint64(req.contentLength)],
           [kind |-> "histogram", name |-> "log_size_h", tags |-> tags,
            value |-> req.contentLength],
           [kind |-> "counter", name |-> "log_size", tags |-> acct,
            value |-> Uint64(req.contentLength)],
           [kind |-> "histogram", name |-> "log_size_h", tags |-> acct,
            value |-> req.contentLength] >>

\* the four recordings a handler makes after Do has returned
MetricRecordings(req) ==
    LET tags == {<<"units", "bytes">>, <<"path", req.path>>}
        acct == tags \cup {<<"ingest_acct", req.cred.user>>}
    IN  << [kind |-> "counter", name |-> "log_size", tags |-> tags,
            value |-> Uint64(req.contentLength)],
           [kind |-> "histogram", name |-> "log_size_h", tags |-> tags,
            value |-> req.contentLength],
           [kind |-> "counter", name |-> "log_size", tags |-> acct,
            value |-> Uint64(req.contentLength)],
           [kind |-> "histogram", name |-> "log_size_h", tags |-> acct,
            value |-> req.contentLength] >>

\* a relay that answers 200 whatever the backend said
RelayStatusAlwaysOK(handler, rsp) == StatusOK

\* the status a handler writes for the response it relays
RelayStatus(handler, rsp) ==
    IF handler = "bulkHandler" THEN rsp.status
    ELSE IF rsp.status # StatusOK THEN rsp.status ELSE StatusOK

\* the body a handler copies to the caller: io.Copy(w, resp.Body)
RelayBody(rsp) == rsp.body

\* The handler after Do has returned: the error is logged only, the metrics are
\* recorded, the content type is set and the status is read from the response; with no
\* response (nil) that read panics: the server closes the connection (under
\* TimeoutHandler after the timeout, the panic stays in the handler's goroutine).
Relay ==
    /\ pc = "relay"
    /\ logged' = IF err THEN {[level |-> "error", msg |-> "making destination request"]}
                 ELSE {}
    /\ metrics' = metrics \o MetricRecordings(r)
    /\ IF resp = NoResp
       THEN /\ panicked' = TRUE
            /\ w' = SetContentType(w, JsonUtf8)
            /\ pc' = "done"
            /\ UNCHANGED caller
       ELSE /\ w' = WriteHeader(SetContentType(w, JsonUtf8), RelayStatus(route.handler, resp))
            /\ caller' = Deliver(route, ctx, caller, w', FALSE)
            /\ pc' = "copy"
            /\ UNCHANGED panicked
    /\ UNCHANGED <<wait, wire, inflight>>
    /\ UNCHANGED servervars
    /\ UNCHANGED <<r, route, ctx, deadline, outreq, i, retries, sends, resp, err, backend>>

\* io.Copy(w, resp.Body) and the handler's return; ok is whether the copy succeeded
CopyBody(ok) ==
    /\ pc = "copy"
    /\ IF ok
       THEN /\ w' = Write(w, RelayBody(resp))
            /\ logged' = {[level |-> "info", msg |-> "request processed"]}
       ELSE /\ w' = LocalFailure(route.handler, w, "reading/writing response")
            /\ logged' = {[level |-> "error", msg |-> "reading/writing response body"]}
    /\ caller' = Deliver(route, ctx, caller, w', TRUE)
    /\ pc' = "done"
    /\ UNCHANGED <<wait, wire, inflight>>
    /\ UNCHANGED servervars
    /\ UNCHANGED <<r, route, ctx, deadline, panicked, outreq, i, retries, sends, resp, err, metrics, backend>>

Running == {"compress", "attempt", "inflight", "backoff", "relay", "copy"}

\* The handler timeout (cfg.Server.HandlerTimeout) elapses while the handler runs.  Behind
\* http.TimeoutHandler the caller is answered 503 "Handler timeout" and the request
\* context is done (a caller that went away ended the wait before); a handler registered
\* without it has no timer, and nothing happens.
HandlerTimeout ==
    /\ pc \in Running
    /\ deadline = "pending"
    /\ deadline' = "passed"
    /\ IF route.timeout /\ ctx = "live"
       THEN /\ ctx' = "timeout"
            /\ caller' = [code |-> StatusServiceUnavailable, ctype |-> "",
                          challenge |-> FALSE, body |-> <<"Handler timeout">>]
       ELSE UNCHANGED <<ctx, caller>>
    /\ logged' = {}
    /\ UNCHANGED <<wait, wire, inflight>>
    /\ UNCHANGED servervars
    /\ UNCHANGED <<pc, r, route, w, panicked, outreq, i, retries, sends, resp, err, metrics,
                   backend>>

\* the caller closes its connection while the handler runs: the request context is done
CallerDisconnect ==
    /\ pc \in Running
    /\ ctx = "live"
    /\ ctx' = "cancelled"
    /\ logged' = {}
    /\ UNCHANGED <<wait, wire, inflight>>
    /\ UNCHANGED servervars
    /\ UNCHANGED <<pc, r, route, deadline, w, caller, panicked, outreq, i, retries, sends, resp, err,
                   metrics, backend>>

\* the bodies a method comes with: only POST and PUT carry one
BodiesOf(method) == IF method \in {"POST", "PUT"} THEN Bodies ELSE {<<>>}

\* the queries a path comes with: a query string is followed on one bulk endpoint, one
\* generic endpoint and the catch-all
QueriesOf(path) ==
    IF path \in {<<"_bulk">>, <<"_cluster", "settings">>, <<"nosuch">>} THEN Queries ELSE {""}

Next ==
    \/ /\ pc = "idle"
       /\ \E method \in Methods, path \in InboundPaths, cred \in Creds \cup {NoCred} :
              \E query \in QueriesOf(path), body \in BodiesOf(method), chunked \in BOOLEAN :
                  /\ (chunked => method \in {"POST", "PUT"})
                  /\ ServeHTTP(method, path, query, cred, body, chunked)
    \/ /\ pc = "compress"
       /\ \E fail \in {"none", "read", "close", "build"} : Compress(fail)
    \/ AttemptStart
    \/ /\ pc = "inflight"
       /\ \E o \in Responses \cup TransportErrors : AttemptEnd(o)
    \/ BackoffElapsed
    \/ BackoffCancelled
    \/ Relay
    \/ /\ pc = "copy"
       /\ \E ok \in BOOLEAN : CopyBody(ok)
    \/ HandlerTimeout
    \/ CallerDisconnect

Spec == Init /\ [][Next]_vars

\* ------------------------------------------------- Start's flush goroutine

\* what s.metrics.Flush(ctx) can return: a result and no error, or an error along with
\* a result or with none (a nil *Result)
FlushOutcomes ==
    { [r |-> "result", err |-> FALSE],
      [r |-> "result", err |-> TRUE],
      [r |-> "nil", err |-> TRUE] }

\* the process is there: main has not returned and no goroutine has panicked
Alive == process = "running" /\ flusher # "crashed"

\* time.NewTicker(FlushInterval): the interval passes; the channel holds one tick at most
Tick ==
    /\ Alive
    /\ flusher = "select"
    /\ ~tick
    /\ tick' = TRUE
    /\ UNCHANGED <<rootctx, flusher, flushResult, flushes, warned>>
    /\ UNCHANGED <<concvars, reqvars, lifevars, cfgvars>>

\* main returns from svr.Start: its deferred cancel() ends the context handed to Start
\* and to handleSignals
Cancel ==
    /\ Alive
    /\ start = "returned"
    /\ rootctx = "live"
    /\ rootctx' = "done"
    /\ UNCHANGED <<flusher, tick, flushResult, flushes, warned>>
    /\ UNCHANGED <<concvars, reqvars, lifevars, cfgvars>>

\* case <-ticker.C: Flush is called, an error is logged as a warning, then the debug
\* event is built from the fields of the result: with a nil result that read panics in
\* the goroutine, which ends the process.
FlushTick(o) ==
    /\ Alive
    /\ flusher = "select"
    /\ tick
    /\ flushes < MaxFlushes
    /\ tick' = FALSE
    /\ flushes' = flushes + 1
    /\ flushResult' = o
    /\ warned' = IF o.err THEN warned + 1 ELSE warned
    /\ flusher' = IF o.r = "nil" THEN "crashed" ELSE "select"
    /\ UNCHANGED rootctx
    /\ UNCHANGED <<concvars, reqvars, lifevars, cfgvars>>

\* case <-ctx.Done(): the goroutine returns
FlushReturn ==
    /\ Alive
    /\ flusher = "select"
    /\ rootctx = "done"
    /\ flusher' = "returned"
    /\ UNCHANGED <<rootctx, tick, flushResult, flushes, warned>>
    /\ UNCHANGED <<concvars, reqvars, lifevars, cfgvars>>

\* ------------------------------------------- main, handleSignals, Start, Stop

\* the signals main has signal.Notify relay to signalCh
Signals == {"SIGINT", "SIGTERM", "SIGHUP", "SIGPIPE", "SIGTRAP"}

\* the buffer of signalCh: make(chan os.Signal, 10)
SignalChCap == 10

\* a signal arrives; signal.Notify does not block: with the buffer full it is dropped
Signal(sig) ==
    /\ Alive
    /\ delivered < MaxSignals
    /\ delivered' = delivered + 1
    /\ sigch' = IF Len(sigch) < SignalChCap THEN Append(sigch, sig) ELSE sigch
    /\ UNCHANGED <<sighandler, start, shutdown, closes, process>>
    /\ UNCHANGED <<concvars, reqvars, flushvars, cfgvars>>

\* handleSignals, case sig := <-signalCh: SIGINT and SIGTERM enter s.Stop, whose
\* srv.Shutdown closes the listener at once; the other signals are taken and dropped.
\* (The other case, <-ctx.Done(), is never ready while handleSignals waits: main cancels
\* the context after Start has returned, and Start returns after the close that Stop
\* makes on handleSignals' way out.)
HandleSignal ==
    /\ Alive
    /\ sighandler = "select"
    /\ sigch # <<>>
    /\ sigch' = Tail(sigch)
    /\ IF Head(sigch) \in {"SIGINT", "SIGTERM"}
       THEN /\ sighandler' = "stopping"
            /\ shutdown' = "begun"
       ELSE UNCHANGED <<sighandler, shutdown>>
    /\ UNCHANGED <<delivered, start, closes, process>>
    /\ UNCHANGED <<concvars, reqvars, flushvars, cfgvars>>

\* a signal handler that goes back to its select after s.Stop instead of returning
StopAndWaitAgain(graceful) ==
    /\ Alive
    /\ sighandler = "stopping"
    /\ shutdown = "begun"
    /\ shutdown' = IF graceful THEN "graceful" ELSE "timeout"
    /\ closes' = closes + 1
    /\ sighandler' = "select"
    /\ UNCHANGED <<sigch, delivered, start, process>>
    /\ UNCHANGED <<concvars, reqvars, flushvars, cfgvars>>

\* s.Stop after srv.Shutdown(toctx) has returned, because the connections went idle
\* (graceful) or because the 30 s of toctx passed: the error is logged, the channel is
\* closed and handleSignals returns
Stop(graceful) ==
    /\ Alive
    /\ sighandler = "stopping"
    /\ shutdown = "begun"
    /\ shutdown' = IF graceful THEN "graceful" ELSE "timeout"
    /\ closes' = closes + 1
    /\ sighandler' = "returned"
    /\ UNCHANGED <<sigch, delivered, start, process>>
    /\ UNCHANGED <<concvars, reqvars, flushvars, cfgvars>>

\* Start: ListenAndServe returns, with ErrServerClosed once Shutdown has begun, or
\* before that with an error of its own (failed is then TRUE: the bind failed)
ListenAndServe(failed) ==
    /\ Alive
    /\ start = "serving"
    /\ failed = (shutdown = "no")
    /\ start' = "blocked"
    /\ UNCHANGED <<sigch, delivered, sighandler, shutdown, closes, process>>
    /\ UNCHANGED <<concvars, reqvars, flushvars, cfgvars>>

\* Start: <-s.idleConnsClosed, return nil
StartReturn ==
    /\ Alive
    /\ start = "blocked"
    /\ closes > 0
    /\ start' = "returned"
    /\ UNCHANGED <<sigch, delivered, sighandler, shutdown, closes, process>>
    /\ UNCHANGED <<concvars, reqvars, flushvars, cfgvars>>

\* main has returned (its deferred cancel done): the process exits and takes the
\* goroutines still running with it
Exit ==
    /\ Alive
    /\ start = "returned"
    /\ rootctx = "done"
    /\ process' = "exited"
    /\ flusher' = IF flusher = "select" THEN "returned" ELSE flusher
    /\ sighandler' = "returned"
    /\ UNCHANGED <<sigch, delivered, start, shutdown, closes>>
    /\ UNCHANGED <<rootctx, tick, flushResult, flushes, warned>>
    /\ UNCHANGED <<concvars, reqvars, cfgvars>>

ServerNext ==
    \/ Tick
    \/ \E o \in FlushOutcomes : FlushTick(o)
    \/ FlushReturn
    \/ \E sig \in Signals : Signal(sig)
    \/ HandleSignal
    \/ \E graceful \in BOOLEAN : Stop(graceful)
    \/ \E failed \in BOOLEAN : ListenAndServe(failed)
    \/ StartReturn
    \/ Cancel
    \/ Exit

ServerSpec == Init /\ [][ServerNext]_vars

\* the scheduler runs every goroutine that can take a step, and main's return
ServerFairSpec ==
    /\ ServerSpec
    /\ WF_vars(HandleSignal)
    /\ WF_vars(\E graceful \in BOOLEAN : Stop(graceful))
    /\ WF_vars(ListenAndServe(FALSE))
    /\ WF_vars(StartReturn)
    /\ WF_vars(Cancel)
    /\ WF_vars(Exit)
    /\ WF_vars(FlushReturn)

\* ------------------------------------------ two requests served concurrently

\* net/http runs every request's handler in a goroutine of its own.  What a handler
\* declares inside ServeHTTP or genericRequest (the request and its context, the reply
\* writer, buf, username and password, client, req, retries, retryClient, resp, err) is
\* that goroutine's; the handlers share the Server's cfg, which they only read, and its
\* metrics recorder.  The variables of the request pipeline are the locals of the
\* handler that runs, parked holds those of the other one.
Locals ==
    [pc |-> pc, r |-> r, route |-> route, ctx |-> ctx, deadline |-> deadline,
     w |-> w, caller |-> caller, panicked |-> panicked, outreq |-> outreq,
     i |-> i, retries |-> retries, sends |-> sends, resp |-> resp, err |-> err,
     backend |-> backend, wait |-> wait, wire |-> wire, inflight |-> inflight]

\* a scheduler switch between handlers that keep their retry counter in one place
SwitchSharingRetries ==
    /\ parked' = [Locals EXCEPT !.retries = parked.retries]
    /\ active' = 3 - active
    /\ pc' = parked.pc
    /\ r' = parked.r
    /\ route' = parked.route
    /\ ctx' = parked.ctx
    /\ deadline' = parked.deadline
    /\ w' = parked.w
    /\ caller' = parked.caller
    /\ panicked' = parked.panicked
    /\ outreq' = parked.outreq
    /\ i' = parked.i
    /\ sends' = parked.sends
    /\ resp' = parked.resp
    /\ err' = parked.err
    /\ backend' = parked.backend
    /\ wait' = parked.wait
    /\ wire' = parked.wire
    /\ inflight' = parked.inflight
    /\ logged' = {}
    /\ UNCHANGED <<retries, metrics>>
    /\ UNCHANGED <<flushvars, lifevars, cfgvars>>

\* the scheduler takes the running handler off and runs the other one: each goes on
\* with its own locals, the metrics recorder is the one both record into
Switch ==
    /\ parked' = Locals
    /\ active' = 3 - active
    /\ pc' = parked.pc
    /\ r' = parked.r
    /\ route' = parked.route
    /\ ctx' = parked.ctx
    /\ deadline' = parked.deadline
    /\ w' = parked.w
    /\ caller' = parked.caller
    /\ panicked' = parked.panicked
    /\ outreq' = parked.outreq
    /\ i' = parked.i
    /\ retries' = parked.retries
    /\ sends' = parked.sends
    /\ resp' = parked.resp
    /\ err' = parked.err
    /\ backend' = parked.backend
    /\ wait' = parked.wait
    /\ wire' = parked.wire
    /\ inflight' = parked.inflight
    /\ logged' = {}
    /\ UNCHANGED metrics
    /\ UNCHANGED <<flushvars, lifevars, cfgvars>>

\* the two requests: a bulk post and a template put, from different accounts
ConcRequest(k) ==
    IF k = 1
    THEN [method |-> "POST", path |-> <<"_bulk">>,
          cred |-> ParseBasicAuth(<<"a", ":", "p">>), body |-> <<1>>]
    ELSE [method |-> "PUT", path |-> <<"_template", "foo">>,
          cred |-> ParseBasicAuth(<<"b", ":", ":">>), body |-> <<0>>]

\* what the backend answers an attempt of either: done, overloaded, or not reachable
ConcOutcomes ==
    { [kind |-> "resp", status |-> StatusOK, body |-> "b1", retryAfter |-> NoRetryAfter],
      [kind |-> "resp", status |-> StatusInternalServerError, body |-> "b2",
       retryAfter |-> NoRetryAfter],
      [kind |-> "err", err |-> "net"],
      [kind |-> "err", err |-> "ctx"] }

ConcNext ==
    \/ /\ pc = "idle"
       /\ LET q == ConcRequest(active)
          IN  ServeHTTP(q.method, q.path, "", q.cred, q.body, FALSE)
    \/ /\ pc = "compress"
       /\ Compress("none")
    \/ AttemptStart
    \/ /\ pc = "inflight"
       /\ \E o \in ConcOutcomes : AttemptEnd(o)
    \/ BackoffElapsed
    \/ BackoffCancelled
    \/ Relay
    \/ /\ pc = "copy"
       /\ CopyBody(TRUE)
    \/ CallerDisconnect
    \/ Switch

ConcSpec == Init /\ [][ConcNext]_vars

\* --------------------------------------------------- main and config.Load

\* tls.VersionTLS12, tls.VersionTLS13
VersionTLS12 == 771

VersionTLS13 == 772

\* strconv.ParseBool
ParseBool(str) ==
    IF str \in {"1", "t", "T", "TRUE", "true", "True"} THEN [ok |-> TRUE, v |-> TRUE]
    ELSE IF str \in {"0", "f", "F", "FALSE", "false", "False"} THEN [ok |-> TRUE, v |-> FALSE]
    ELSE [ok |-> FALSE, v |-> FALSE]

\* time.ParseDuration on the flush intervals used here, in seconds; 0 with ok FALSE
\* for what does not parse
ParseDuration(str) ==
    IF str = "60s" THEN [ok |-> TRUE, d |-> 60] ELSE [ok |-> FALSE, d |-> 0]

\* the values a setting is given: a variable of the environment (C3E_...) or a key of
\* the YAML file; an absent key is an unset variable
Set(v) == [set |-> TRUE, val |-> v]

BoolSettings == {Unset, Set("true"), Set("junk")}

DebugSettings == BoolSettings \cup {Set("")}

\* the destination CA files: one that loads, one that does not
CAFiles == {"ca.pem", "nosuch.pem"}

ConfigFiles == {"missing", "unreadable", "yaml"}

Launches ==
    [debug : BOOLEAN, version : BOOLEAN, file : ConfigFiles,
     settings : [DEBUG : DebugSettings, ENABLE_TLS : BoolSettings,
                 SKIP_VERIFY : {Unset, Set("true")},
                 HOST : {Unset, Set("es")}, API_KEY : {Unset, Set("key")},
                 CA_FILE : {Unset} \cup {Set(f) : f \in CAFiles},
                 FLUSH_INTERVAL : {Unset, Set("soon")}]]

\* a boolean variable of the environment: a value that is not set, is empty or does
\* not parse leaves the field as it was
EnvBool(e, old) ==
    IF e.set /\ e.val # "" /\ ParseBool(e.val).ok THEN ParseBool(e.val).v ELSE old

\* cfgFromEnv: the strings as they are, the booleans parsed
cfgFromEnv(env) ==
    [NoCfg EXCEPT !.Destination.Host = env.HOST.val,
                  !.Destination.CAFile = env.CA_FILE.val,
                  !.Circonus.APIKey = env.API_KEY.val,
                  !.Circonus.FlushDuration = env.FLUSH_INTERVAL.val,
                  !.Destination.EnableTLS = EnvBool(env.ENABLE_TLS, FALSE),
                  !.Destination.SkipVerify = EnvBool(env.SKIP_VERIFY, FALSE),
                  !.Debug = EnvBool(env.DEBUG, FALSE)]

\* a boolean key of the YAML file: absent or null it leaves the field false, and a
\* value that is no boolean fails the decoding
YamlBool(y) ==
    IF ~y.set \/ y.val = "" THEN [ok |-> TRUE, v |-> FALSE]
    ELSE IF y.val \in {"true", "false"} THEN [ok |-> TRUE, v |-> y.val = "true"]
    ELSE [ok |-> FALSE, v |-> FALSE]

\* yaml.Unmarshal(data, &cfg): the untagged Debug field is the key "debug"
Unmarshal(yaml) ==
    IF YamlBool(yaml.ENABLE_TLS).ok /\ YamlBool(yaml.SKIP_VERIFY).ok /\ YamlBool(yaml.DEBUG).ok
    THEN [err |-> FALSE,
          cfg |-> [NoCfg EXCEPT !.Destination.Host = yaml.HOST.val,
                                !.Destination.CAFile = yaml.CA_FILE.val,
                                !.Circonus.APIKey = yaml.API_KEY.val,
                                !.Circonus.FlushDuration = yaml.FLUSH_INTERVAL.val,
                                !.Destination.EnableTLS = YamlBool(yaml.ENABLE_TLS).v,
                                !.Destination.SkipVerify = YamlBool(yaml.SKIP_VERIFY).v,
                                !.Debug = YamlBool(yaml.DEBUG).v]]
    ELSE [err |-> TRUE, cfg |-> NoCfg]

\* loadCAFile: the file is read, its certificates make the pool, and the
\* configuration returned is a new one
loadCAFile(fn) ==
    IF fn = "ca.pem"
    THEN [err |-> FALSE,
          tc |-> [nil |-> FALSE, MinVersion |-> VersionTLS13, RootCAs |-> fn,
                  InsecureSkipVerify |-> FALSE]]
    ELSE [err |-> TRUE, tc |-> NilTLS]

Backfill(v, default) == IF v = "" THEN default ELSE v

\* the destination TLS configuration Load builds; fatal when the CA file does not load
DestinationTLS(dest) ==
    IF ~dest.EnableTLS THEN [fatal |-> FALSE, tc |-> NilTLS]
    ELSE LET tc0 == [nil |-> FALSE, MinVersion |-> VersionTLS12, RootCAs |-> "",
                     InsecureSkipVerify |-> FALSE]
             ca  == loadCAFile(dest.CAFile)
             tc1 == IF dest.CAFile # "" THEN ca.tc ELSE tc0
         IN  IF dest.CAFile # "" /\ ca.err THEN [fatal |-> TRUE, tc |-> NilTLS]
             ELSE [fatal |-> FALSE,
                   tc |-> IF dest.SkipVerify THEN [tc1 EXCEPT !.InsecureSkipVerify = TRUE]
                          ELSE tc1]

\* config.Load(file): the configuration, an error, or log.Fatal inside
Load(file, settings) ==
    LET failed == [cfg |-> NoCfg, err |-> TRUE, fatal |-> FALSE]
        read == IF file = "missing" THEN [err |-> FALSE, cfg |-> cfgFromEnv(settings)]
                ELSE IF file = "yaml" THEN Unmarshal(settings)
                ELSE [err |-> TRUE, cfg |-> NoCfg]
        c0   == read.cfg
        fd   == Backfill(c0.Circonus.FlushDuration, "60s")
        c1   == [c0 EXCEPT !.Circonus.APIURL = Backfill(@, "https://api.circonus.com/"),
                           !.Circonus.FlushDuration = fd,
                           !.Circonus.FlushInterval = ParseDuration(fd).d,
                           !.Server.Address = Backfill(@, ":9200"),
                           !.Server.ReadTimeout = Backfill(@, "60s"),
                           !.Server.WriteTimeout = Backfill(@, "60s"),
                           !.Server.IdleTimeout = Backfill(@, "30s"),
                           !.Server.ReadHeaderTimeout = Backfill(@, "5s"),
                           !.Server.HandlerTimeout = Backfill(@, "30s")]
        tls  == DestinationTLS(c1.Destination)
    IN  IF file = "" \/ read.err THEN failed
        ELSE IF c0.Destination.Host = "" \/ c0.Circonus.APIKey = "" THEN failed
        ELSE IF ~ParseDuration(fd).ok THEN failed
        ELSE IF tls.fatal THEN [cfg |-> NoCfg, err |-> FALSE, fatal |-> TRUE]
        ELSE [cfg |-> [c1 EXCEPT !.Destination.TLSConfig = tls.tc], err |-> FALSE,
              fatal |-> FALSE]

\* main: flag.Parse; -version prints and exits
ParseFlags(l) ==
    /\ cfgpc = "flags"
    /\ launch' = l
    /\ cfgpc' = IF l.version THEN "exited" ELSE "load"
    /\ UNCHANGED cfg
    /\ UNCHANGED <<concvars, reqvars, flushvars, lifevars>>

\* main: cfg, err := config.Load(*cfgFile); an error is fatal
LoadConfig ==
    /\ cfgpc = "load"
    /\ LET res == Load(launch.file, launch.settings)
       IN  IF res.err \/ res.fatal
           THEN cfgpc' = "exited" /\ UNCHANGED cfg
           ELSE cfgpc' = "debug" /\ cfg' = res.cfg
    /\ UNCHANGED launch
    /\ UNCHANGED <<concvars, reqvars, flushvars, lifevars>>

\* main: cfg.Debug = *debug, after which the configuration goes to server.New
SetDebug ==
    /\ cfgpc = "debug"
    /\ cfg' = [cfg EXCEPT !.Debug = launch.debug]
    /\ cfgpc' = "new"
    /\ UNCHANGED launch
    /\ UNCHANGED <<concvars, reqvars, flushvars, lifevars>>

ConfigNext ==
    \/ \E l \in Launches : ParseFlags(l)
    \/ LoadConfig
    \/ SetDebug

ConfigSpec == Init /\ [][ConfigNext]_vars

\* =================================================================== claims

\* the handler's copy of the backend body to the caller failed
StreamFailed == \E e \in logged : e.msg = "reading/writing response body"

Forwarded == {"attempt", "inflight", "backoff", "relay", "copy"}

AfterDo == {"relay", "copy", "done"}

SuccessStatus == {s \in BackendStatus : s >= 200 /\ s < 300}

C2_RetryThenSuccess ==
    (/\ pc \in AfterDo /\ ctx = "live"
     /\ backend.last.kind = "resp" /\ backend.last.status \in SuccessStatus
     /\ backend.failures < RetryMax)
        => /\ sends = backend.failures + 1
           /\ pc = "done" => /\ caller.code = backend.last.status
                             /\ ~StreamFailed => caller.body = <<backend.last.body>>

C2_Witness ==
    /\ pc = "done" /\ ctx = "live" /\ route.handler = "bulkHandler"
    /\ backend.failures = 3 /\ backend.last.kind = "resp" /\ backend.last.status = StatusOK
    /\ sends = 4 /\ caller.code = StatusOK /\ caller.body = <<backend.last.body>>

\* C3 (as claimed): once every attempt of the retry budget has failed, the caller has a
\* 500 internal-error response.
C3_ExhaustionAnswered500 ==
    (/\ pc = "done" /\ ctx = "live"
     /\ backend.failures = sends /\ sends = RetryMax + 1)
        => caller.code = StatusInternalServerError

\* C4 (as claimed): the outbound sends of one request never exceed RetryMax = 7.
C4_SendsWithinRetryMax == sends <= RetryMax

\* C4 (amended): the outbound sends of one request never exceed RetryMax + 1 (the first
\* attempt and RetryMax retries), and when every attempt ended in a retryable failure
\* the backend has been invoked exactly RetryMax + 1 times when forwarding ends.
C4_SendsWithinRetryMaxPlusOne ==
    /\ sends <= RetryMax + 1
    /\ (/\ pc \in AfterDo /\ ctx = "live"
        /\ sends > 0 /\ backend.failures = sends
        /\ backend.last # [kind |-> "err", err |-> "fatal"])
           => sends = RetryMax + 1

C4_Witness ==
    /\ pc = "done" /\ ctx = "live"
    /\ sends = RetryMax + 1 /\ backend.failures = RetryMax + 1 /\ retries = RetryMax

\* a path no registered pattern other than the catch-all "/" matches
Unmatched(path) ==
    /\ path # <<"">>
    /\ \A rt \in Routes : rt.pattern # <<"">> => ~PatternMatches(rt.pattern, path)

\* C5 (as claimed): an authenticated request to a path matching no entry of the routing
\* table is answered 404, the warning with method and URI is logged and nothing is sent
\* to the backend, whatever the method.
C5_UnmatchedNotFound ==
    (pc # "idle" /\ r.cred.ok /\ Unmatched(r.path))
        => /\ pc = "done"
           /\ caller.code = StatusNotFound
           /\ [level |-> "warn", msg |-> "request received",
               method |-> r.method, uri |-> <<r.path, r.query>>] \in logged
           /\ sends = 0

\* the methods each registered endpoint declares
DeclaredMethods(pattern) ==
    CASE pattern \in {<<"_bulk">>, <<"otel-v1-apm-span", "_bulk">>,
                      <<"otel-v1-apm-span", "_search">>} -> {"POST"}
      [] pattern = <<"_cluster", "settings">> -> {"GET"}
      [] OTHER -> {"PUT", "HEAD", "GET"}

\* C6: on every registered endpoint other than / and /health, an authenticated request
\* with a method outside the endpoint's declared set is answered 405 "method not
\* supported" and nothing is sent to the backend.
C6_UndeclaredMethodNotAllowed ==
    (/\ pc # "idle" /\ r.cred.ok
     /\ route.pattern \notin {<<"">>, <<"health">>}
     /\ r.method \notin DeclaredMethods(route.pattern))
        => /\ pc = "done"
           /\ caller.code = StatusMethodNotAllowed
           /\ caller.body = <<"method not supported">>
           /\ sends = 0

C6_Witness ==
    /\ pc = "done" /\ r.cred.ok
    /\ r.path = <<"_template", "foo">> /\ r.method = "DELETE"
    /\ caller.code = StatusMethodNotAllowed /\ sends = 0

\* C7: a request to /health, whatever its method and with or without credentials, is
\* answered 200 with body OK, with no challenge, no outbound call and no metric.
C7_HealthAlwaysOK ==
    (pc # "idle" /\ r.path = <<"health">>)
        => /\ pc = "done"
           /\ caller.code = StatusOK
           /\ caller.body = <<"OK">>
           /\ ~caller.challenge
           /\ sends = 0
           /\ metrics = <<>>

C7_Witness ==
    /\ pc = "done" /\ r.path = <<"health">> /\ ~r.cred.ok /\ r.method = "POST"
    /\ caller.code = StatusOK /\ caller.body = <<"OK">>

\* C8: when the forwarder hands the handler a backend response (2xx or not), the reply
\* carries the backend's status code and, the copy having succeeded, the JSON content
\* type and the backend's body unchanged (the request context still live).
C8_RelayVerbatim ==
    (pc = "done" /\ ctx = "live" /\ resp # NoResp)
        => /\ caller.code = backend.last.status
           /\ ~StreamFailed => /\ caller.ctype = JsonUtf8
                               /\ caller.body = <<backend.last.body>>

C8_Witness ==
    /\ pc = "done" /\ ctx = "live" /\ resp # NoResp /\ ~StreamFailed
    /\ route.handler = "templateHandler"
    /\ backend.last.status = 404 /\ backend.last.body = "b2"
    /\ caller.code = 404 /\ caller.ctype = JsonUtf8 /\ caller.body = <<"b2">>

\* the non-2xx statuses the backend answers that are not failures to retry
RefusalStatus == {s \in BackendStatus : s >= 400 /\ s \notin FailingStatus}

\* C9: once the backend has answered an attempt with a non-2xx status that is not
\* retryable, forwarding is over (no wait, no further attempt) and the caller's reply is
\* that status and body (the request context still live).
C9_RefusalEndsForwarding ==
    (/\ ctx = "live" /\ backend.last.kind = "resp"
     /\ backend.last.status \in RefusalStatus)
        => /\ pc \in AfterDo
           /\ sends = backend.failures + 1
           /\ pc = "done" => /\ caller.code = backend.last.status
                             /\ ~StreamFailed => caller.body = <<backend.last.body>>

C9_Witness ==
    /\ pc = "done" /\ ctx = "live" /\ ~StreamFailed
    /\ backend.last.kind = "resp" /\ backend.last.status = StatusNotAcceptable
    /\ sends = 1 /\ caller.code = StatusNotAcceptable
    /\ caller.body = <<backend.last.body>>

\* C10 (as claimed): on every proxied endpoint, bulk or generic, a request whose handler
\* timeout elapsed while it was being handled has its context done, so that the attempt
\* in flight is abandoned, and its caller has the timeout answer.
C10_DeadlineEndsEveryForward ==
    (pc \in Forwarded /\ deadline = "passed" /\ ctx # "cancelled")
        => /\ ctx = "timeout"
           /\ caller.code = StatusServiceUnavailable

\* C11 (as claimed): the metrics are recorded once for a request whose forwarding ended
\* with a response object and not at all for a request whose forwarding ended without
\* one (compression or construction failure, forwarder error).
C11_MetricsOnlyWithResponse ==
    pc \in {"copy", "done"}
        => IF resp # NoResp
           THEN Len(metrics) = Len(MetricRecordings(r))
           ELSE metrics = <<>>

\* C12 (as claimed): every recording, counter or histogram, with or without the
\* ingest_acct tag, carries the number of bytes read from the inbound body before
\* compression, also for a request without body or of unknown content length.
C12_RecordedValueIsBytesRead ==
    \A k \in 1..Len(metrics) :
        /\ {<<"units", "bytes">>, <<"path", r.path>>} \subseteq metrics[k].tags
        /\ metrics[k].value = IF metrics[k].kind = "counter"
                               THEN Uint64(ContentSize(route.handler, r))
                               ELSE ContentSize(route.handler, r)

\* the gateway itself turned the request down at the method gate: 404 or 405, nothing
\* built for the backend
GatewayRefused ==
    /\ pc = "done"
    /\ outreq = NoOutReq
    /\ w.code \in {StatusNotFound, StatusMethodNotAllowed}

\* /_bulk and /<index>/_bulk
IsBulkPath(path) ==
    \/ path = <<"_bulk">>
    \/ Len(path) = 2 /\ path[1] # "" /\ path[2] = "_bulk"

\* C13 (as claimed): an authenticated POST to /_bulk or /<index>/_bulk, whatever the
\* index, is handled by the bulk handler, which goes on to compress and forward it.
C13_BulkPathsReachBulkHandler ==
    (pc # "idle" /\ r.cred.ok /\ r.method = "POST" /\ IsBulkPath(r.path))
        => /\ route.handler = "bulkHandler"
           /\ ~GatewayRefused

TemplateRoots == {"_template", "_component_template", "_index_template"}

\* C14 (as claimed): an authenticated PUT, HEAD or GET to a path under /_template/,
\* /_component_template/ or /_index_template/ is passed on to the backend, with the
\* same method.
C14_TemplatePathsPassThrough ==
    (/\ pc # "idle" /\ r.cred.ok /\ r.method \in {"PUT", "HEAD", "GET"}
     /\ Len(r.path) >= 2 /\ r.path[1] \in TemplateRoots)
        => /\ ~GatewayRefused
           /\ outreq # NoOutReq => outreq.method = r.method

\* C15: an authenticated GET or HEAD to / is passed on to the backend as it came (same
\* method, same path); any other method on / is answered 404 "not found" and nothing is
\* sent to the backend.
C15_RootGetHeadPassThrough ==
    (pc # "idle" /\ r.cred.ok /\ r.path = <<"">>)
        => IF r.method \in {"GET", "HEAD"}
           THEN /\ ~GatewayRefused
                /\ outreq # NoOutReq => (outreq.method = r.method /\ outreq.url.path = <<"">>)
                /\ sends > 0 => outreq # NoOutReq
                /\ (pc = "done" /\ ctx = "live" /\ resp # NoResp)
                       => caller.code = resp.status
           ELSE /\ pc = "done"
                /\ caller.code = StatusNotFound
                /\ caller.body = <<"not found">>
                /\ outreq = NoOutReq
                /\ sends = 0

C15_Witness ==
    /\ pc = "done" /\ ctx = "live" /\ r.cred.ok
    /\ r.path = <<"">> /\ r.method = "HEAD"
    /\ outreq.method = "HEAD" /\ sends = 1
    /\ resp # NoResp /\ caller.code = StatusOK

\* C16 (as claimed): every outbound request, bulk or generic, goes to the destination
\* host and port with the inbound path and the inbound query string unchanged, and with
\* the inbound method.
C16_OutboundUrlKeepsPathAndQuery ==
    outreq # NoOutReq
        => /\ outreq.url = [host |-> DestHostPort, path |-> r.path, query |-> r.query]
           /\ outreq.method = r.method

\* C17: a request that presents a credential pair, whatever the two strings, is not
\* turned down for it (no 401, no challenge), and the pair the backend reads from every
\* outbound attempt is the pair read from the inbound request.
C17_CredentialsRelayedUnchanged ==
    (pc # "idle" /\ r.cred.ok)
        => /\ ~caller.challenge
           /\ ~(outreq = NoOutReq /\ w.code = StatusUnauthorized)
           /\ outreq # NoOutReq => ParseBasicAuth(outreq.authorization) = r.cred
           /\ sends > 0 => outreq # NoOutReq

C17_Witness ==
    /\ pc = "done" /\ sends = 2
    /\ r.cred = [user |-> <<"b">>, pass |-> <<":">>, ok |-> TRUE]
    /\ outreq.authorization = <<"b", ":", ":">>
    /\ ParseBasicAuth(outreq.authorization) = r.cred

\* the headers set on every outbound request
CommonHeaders ==
    {<<"X-Circonus-Auth-Token", "dataToken">>, <<"Connection", "close">>,
     <<"User-Agent", "c3-exporter">>, <<"X-Forwarded-For", "remote">>}

\* C18: the outbound request has a body, Content-Encoding: gzip and the inbound
\* Content-Type exactly when the method carries a body (bulk handler: always; generic
\* handler: PUT and POST); a GET or HEAD goes out with no body and neither header; basic
\* auth, the auth token, Connection: close, User-Agent and X-Forwarded-For are always set.
C18_BodyAndHeadersByMethod ==
    outreq # NoOutReq
        => LET bodied == route.handler = "bulkHandler" \/ r.method \in {"PUT", "POST"}
           IN  /\ outreq.hasBody = bodied
               /\ (outreq.body # <<>>) = bodied
               /\ (<<"Content-Encoding", "gzip">> \in outreq.headers) = bodied
               /\ (<<"Content-Type", "inbound">> \in outreq.headers) = bodied
               /\ r.method \in {"GET", "HEAD"} => ~outreq.hasBody
               /\ CommonHeaders \subseteq outreq.headers
               /\ ParseBasicAuth(outreq.authorization).ok

C18_Witness ==
    /\ sends = 1 /\ r.method = "GET" /\ r.path = <<"_cluster", "settings">>
    /\ ~outreq.hasBody /\ outreq.body = <<>>
    /\ <<"Content-Encoding", "gzip">> \notin outreq.headers
    /\ <<"Connection", "close">> \in outreq.headers

\* C19: when reading the inbound body or closing the gzip stream fails, nothing is sent
\* to the backend, nothing is retried and no metric is recorded, and the caller (still
\* there, the handler timeout not passed) has a 500 answer.
C19_CompressionFailureAnswered500 ==
    (pc = "done" /\ \E ev \in logged : ev.level = "error" /\ ev.msg \in {"read", "close"})
        => /\ sends = 0
           /\ retries = 0
           /\ outreq = NoOutReq
           /\ metrics = <<>>
           /\ ctx = "live" => caller.code = StatusInternalServerError

C19_Witness ==
    /\ pc = "done" /\ ctx = "live" /\ route.handler = "templateHandler"
    /\ r.method = "PUT" /\ [level |-> "error", msg |-> "close"] \in logged
    /\ caller.code = StatusInternalServerError /\ sends = 0 /\ metrics = <<>>

\* C20 (as claimed): after a flush that returned an error, whatever came with it, the
\* warning has been logged and the flush loop is still running, ready for the next tick.
C20_FlushErrorKeepsLoopRunning ==
    (flushResult.err /\ rootctx = "live")
        => /\ warned > 0
           /\ flusher = "select"

\* C21 (as claimed): the flush loop ends because of the cancellation and of nothing
\* else: as long as the context handed to Start is not cancelled the loop is running.
C21_LoopEndsOnlyOnCancellation ==
    flusher # "select" => rootctx = "done"

\* a SIGINT or SIGTERM has been delivered and waits in signalCh
TermPending == \E k \in 1..Len(sigch) : sigch[k] \in {"SIGINT", "SIGTERM"}

\* C22 (as claimed): after a SIGINT or SIGTERM has been delivered the listener is shut
\* down, Start returns and the flush loop ends, eventually.
C22_SignalEndsStartAndFlushLoop ==
    TermPending ~> (shutdown \in {"graceful", "timeout"} /\ start = "returned"
                    /\ flusher = "returned")

\* C23 (as claimed): every wait between two attempts lies between RetryWaitMin and
\* RetryWaitMax, and each wait after the first is longer than the one before unless it is
\* RetryWaitMax.
C23_WaitsBoundedAndIncreasing ==
    [][(pc = "inflight" /\ pc' = "backoff")
          => /\ RetryWaitMin <= wait' /\ wait' <= RetryWaitMax
             /\ i > 0 => (wait' > wait \/ wait' = RetryWaitMax)]_vars

\* what a gzip reader makes of a payload: the bytes between header and trailer when
\* both are there and the trailer's size is right, an error otherwise
Gunzip(payload) ==
    IF /\ Len(payload) >= 3
       /\ payload[1] = 31 /\ payload[2] = 139
       /\ payload[Len(payload)] = Len(payload) - 3
    THEN [ok |-> TRUE, bytes |-> SubSeq(payload, 3, Len(payload) - 1)]
    ELSE [ok |-> FALSE, bytes |-> <<>>]

\* C24: the payload of an outbound attempt that carries a body decompresses to the
\* bytes of the inbound body, and the Content-Length the attempt declares is the
\* length of the compressed buffer.
C24_PayloadDecompressesToBody ==
    (sends > 0 /\ outreq.hasBody)
        => /\ Gunzip(wire.body) = [ok |-> TRUE, bytes |-> r.body]
           /\ wire.contentLength = Len(outreq.body)
           /\ wire.contentLength = Len(wire.body)

C24_Witness ==
    /\ sends = 1 /\ outreq.hasBody /\ r.body = <<1>>
    /\ wire.body = <<31, 139, 1, 1>> /\ wire.contentLength = 4
    /\ Gunzip(wire.body).bytes = <<1>>

\* passwords a request could have come with instead of its own
Passwords == {<<>>, <<"p">>, <<":">>, <<"q">>}

\* the fields a log event of the handlers can carry
LogFields == {"level", "msg", "method", "uri", "attempt", "status_code", "retries"}

\* C25: what a request leaves in the logs and in the metric tags is what the same
\* request with any other password leaves: the logger's url and method, the fields of
\* the events logged and the recordings with their tags do not change with the password.
C25_PasswordNotObservable ==
    (pc # "idle" /\ r.cred.ok)
        => \A pw \in Passwords :
               LET twin == [r EXCEPT !.cred.pass = pw]
               IN  /\ metrics \in {<<>>, MetricRecordings(twin)}
                   /\ outreq # NoOutReq
                        => ReqLogger(route.handler, twin)
                             = [url |-> outreq.url, method |-> outreq.method]
                   /\ \A ev \in logged :
                          /\ DOMAIN ev \subseteq LogFields
                          /\ "method" \in DOMAIN ev => ev.method = twin.method
                          /\ "uri" \in DOMAIN ev => ev.uri = <<twin.path, twin.query>>

C25_Witness ==
    /\ pc = "done" /\ r.cred = [user |-> <<"a">>, pass |-> <<"p">>, ok |-> TRUE]
    /\ Len(metrics) = 4
    /\ <<"ingest_acct", <<"a">>>> \in metrics[3].tags
    /\ logged # {}

\* C26: a process that takes its configuration from the environment, with C3E_DEBUG
\* set to a true value, hands server.New a configuration with Debug set.
C26_EnvDebugReachesServer ==
    (/\ cfgpc = "new" /\ launch.file = "missing"
     /\ launch.settings.DEBUG = Set("true"))
        => cfg.Debug

\* C27: a configuration with destination TLS enabled carries a TLS configuration whose
\* minimum version is TLS 1.2, with a CA file and without.
C27_DestinationTLSAllows12 ==
    (cfgpc \in {"debug", "new"} /\ cfg.Destination.EnableTLS)
        => /\ ~cfg.Destination.TLSConfig.nil
           /\ cfg.Destination.TLSConfig.MinVersion = VersionTLS12

\* the texts the handlers answer a local failure with
ErrorTexts == {"reading/writing response", "Internal Server Error"}

\* C28: after the status line of the backend's answer has been written, the handler
\* writes only the backend's body: when the copy to the caller fails, no error text is
\* added to the reply, the failure is logged and nothing else.
C28_StreamFailureOnlyLogged ==
    (pc = "done" /\ resp # NoResp /\ StreamFailed)
        => \A k \in 1..Len(w.body) : w.body[k] \notin ErrorTexts

\* the forwarder is at work: between the first attempt's start and Do's return
InForwarder == {"attempt", "inflight", "backoff"}

\* the outbound body is the finished compression of the whole inbound body
CompressionFinished ==
    outreq # NoOutReq
    /\ (outreq.hasBody => Gunzip(outreq.body) = [ok |-> TRUE, bytes |-> r.body])

\* C29 as stated: while the forwarder is at work the compression is finished, the caller
\* has received no byte of a reply, and at most one attempt is in flight.
C29_CompressDispatchRelayInOrder ==
    /\ pc \in InForwarder => CompressionFinished
    /\ pc \in InForwarder => caller = NoReply
    /\ inflight <= 1

\* C29 amended: while the forwarder is at work the compression is finished, the handler
\* has written nothing, and at most one attempt is in flight; the one reply a caller can
\* have by then is the 503 that http.TimeoutHandler writes on the bulk routes when the
\* handler timeout passes.
C29_HandlerWritesAfterForwarder ==
    /\ pc \in InForwarder => CompressionFinished
    /\ pc \in InForwarder => w = NoReply
    /\ (pc \in InForwarder /\ caller # NoReply)
          => /\ route.timeout /\ ctx = "timeout" /\ deadline = "passed"
             /\ caller.code = StatusServiceUnavailable
    /\ inflight <= 1
    /\ sends > 0 => pc \notin {"idle", "compress"}

C29_Witness ==
    /\ pc = "inflight" /\ inflight = 1 /\ sends = 2
    /\ r.body = <<1>> /\ outreq.body = Gzip(r.body)
    /\ w = NoReply
    /\ caller.code = StatusServiceUnavailable

\* C30: the outbound request, compressed body included, is built once and never changes
\* afterwards, and every attempt puts the whole of that body on the wire: the first
\* sends the buffer, every retry sends what the attempt before it sent.
C30_EveryAttemptSendsWholePayload ==
    [][/\ outreq # NoOutReq => outreq' = outreq
       /\ sends' = sends + 1
            => wire' = [body |-> outreq.body, contentLength |-> Len(outreq.body)]
       /\ (sends' = sends + 1 /\ sends > 0) => wire' = wire]_vars

C30_Witness ==
    /\ sends = 3 /\ i = 2 /\ pc = "inflight"
    /\ r.body = <<1>> /\ outreq.body = <<31, 139, 1, 1>>
    /\ wire = [body |-> <<31, 139, 1, 1>>, contentLength |-> 4]

\* C32: the counter is 0 at dispatch; the step that starts attempt i leaves it at i and
\* logs "retrying" with that index exactly when i > 0; no other step changes it.  So
\* when Do returns the counter is the number of attempts less one (the number of sends
\* less one while the request context is live), and a "succeeded" summary reports
\* counter + 1, the number of sends.
C32_RetryCounterCountsRetries ==
    [][/\ (pc = "compress" /\ pc' = "attempt") => retries' = 0
       /\ (pc = "attempt" /\ pc' = "inflight")
            => /\ retries' = i
               /\ (i > 0) <=> ([level |-> "info", msg |-> "retrying", attempt |-> i]
                                 \in logged')
       /\ pc \notin {"compress", "attempt"} => retries' = retries
       /\ (pc # "relay" /\ pc' = "relay")
            => /\ retries' = i'
               /\ ctx' = "live" => sends' = retries' + 1
       /\ \A ev \in logged' :
              ev.msg = "succeeded"
                  => /\ retries' > 0
                     /\ ev.retries = retries' + 1
                     /\ ev.retries = sends']_vars

C32_Witness ==
    /\ pc = "relay" /\ retries = 2 /\ sends = 3 /\ i = 2
    /\ resp # NoResp /\ resp.status = StatusOK
    /\ [level |-> "info", msg |-> "succeeded", retries |-> 3] \in logged

\* C33: a handler whose forwarder returned an error and no response does not read the
\* response: it does not panic, and the caller is answered by the handler.
C33_NoRelayWithoutResponse ==
    (pc = "done" /\ outreq # NoOutReq /\ err /\ resp = NoResp)
        => /\ ~panicked
           /\ w.code # 0

\* C34: from the moment the request context is done (handler timeout or caller gone), no
\* step of the request puts an attempt on the wire: the number of sends stays, nothing
\* new is in flight, also when the context ended during a backoff wait.
C34_NoAttemptAfterCancellation ==
    [][ctx # "live"
         => /\ sends' = sends
            /\ inflight' <= inflight
            /\ wire' = wire]_vars

C34_Witness ==
    /\ ctx # "live"
    /\ pc = "inflight" /\ i = 2 /\ retries = 2
    /\ sends = 2 /\ inflight = 0

C36_NoFlushAfterCancellation ==
    [][rootctx = "done" => flushes' = flushes]_vars

\* C37: Start has not returned unless Stop has closed s.idleConnsClosed, whether the
\* listener ended with ErrServerClosed or earlier with an error of its own; and once
\* Stop has closed it, Start returns.
C37_StartReturnsWithStop ==
    /\ [](start = "returned" => closes > 0)
    /\ (closes > 0) ~> (start = "returned")

\* C38: s.idleConnsClosed is closed at most once.  Only a SIGINT or SIGTERM taken from
\* signalCh starts Stop; SIGHUP, SIGPIPE and SIGTRAP leave the handler in its select; and
\* once the handler has returned, no signal still queued or arriving starts Stop again.
C38_StopAtMostOnce ==
    [][/\ closes' <= 1
       /\ (shutdown = "no" /\ shutdown' # "no")
            => /\ sigch # <<>>
               /\ Head(sigch) \in {"SIGINT", "SIGTERM"}
       /\ (sighandler = "select" /\ sigch # <<>> /\ sigch' = Tail(sigch)
              /\ Head(sigch) \in {"SIGHUP", "SIGPIPE", "SIGTRAP"})
            => /\ sighandler' = "select"
               /\ shutdown' = shutdown /\ closes' = closes
       /\ sighandler = "returned"
            => /\ closes' = closes /\ shutdown' = shutdown
               /\ sighandler' = "returned"]_vars

C38_Witness ==
    /\ closes = 1 /\ sighandler = "returned" /\ shutdown = "graceful"
    /\ delivered = 3
    /\ sigch = <<"SIGTERM">>

\* what the handler with locals L, serving request k, holds is the request's own: its
\* credentials and compressed payload, a counter that counts its own retries, and a
\* number of attempts and a reply decided by what the backend answered to it
OwnState(L, k) ==
    LET q == ConcRequest(k)
    IN  /\ L.pc # "idle"
             => /\ L.r.method = q.method /\ L.r.path = q.path
                /\ L.r.cred = q.cred /\ L.r.body = q.body
        /\ L.outreq # NoOutReq
             => /\ L.outreq.authorization = SetBasicAuth(q.cred.user, q.cred.pass)
                /\ L.outreq.body = Gzip(q.body)
                /\ L.outreq.url.path = q.path
        /\ L.sends > 0 => L.wire.body = Gzip(q.body)
        /\ L.pc \in {"inflight", "backoff", "relay", "copy", "done"} => L.retries = L.i
        /\ (L.pc \in AfterDo /\ L.ctx = "live")
             => /\ L.sends = L.i + 1
                /\ L.sends = L.backend.failures
                               + (IF BackendFailed(L.backend.last) THEN 0 ELSE 1)
        /\ (L.pc = "done" /\ L.ctx = "live" /\ L.resp # NoResp)
             => /\ L.caller.code = L.backend.last.status
                /\ L.caller.body = <<L.backend.last.body>>

\* C31: with two requests served concurrently, under every interleaving of their
\* handlers' steps each handler works on its own request only, and the recordings in the
\* shared recorder carry the path and the account of the request they were made for.
C31_RequestsIndependent ==
    /\ OwnState(Locals, active)
    /\ OwnState(parked, 3 - active)
    /\ \A n \in 1..Len(metrics) :
           \E k \in {1, 2} :
               /\ <<"path", ConcRequest(k).path>> \in metrics[n].tags
               /\ \A t \in metrics[n].tags :
                      t[1] = "ingest_acct" => t[2] = ConcRequest(k).cred.user

C31_Witness ==
    /\ active = 2 /\ pc = "inflight" /\ i = 1 /\ retries = 1 /\ sends = 2
    /\ parked.pc = "backoff" /\ parked.i = 2 /\ parked.retries = 2 /\ parked.sends = 3
    /\ Len(metrics) = 0

====
